---- MODULE Spec2Model ----
(***************************************************************************)
(* A model of the hue-mcp command server (src/src/server.ts, index.ts):    *)
(* the line-delimited JSON session layer, the command interpreter, the     *)
(* flash sequence and the detached disco interval, run by one event loop   *)
(* (macrotasks: socket reads, bridge replies, timers; microtasks: promise  *)
(* continuations, drained before the next macrotask).                      *)
(***************************************************************************)
EXTENDS Integers, Sequences, FiniteSets, TLC

\* ------------------------------------------------------------------ bounds
\* connections the clients may open
MaxConns == 2
\* lines the clients write, over all connections
MaxLines == 2
\* latest instant of the clock, in units of MsPerUnit milliseconds
MaxClock == 6
\* bridge calls that may be outstanding at once
MaxPending == 2
\* lines the clients write in the framing specification
MaxFramingLines == 2
\* lines the client writes in the commands specification
MaxCommandLines == 1
\* lines the clients write in the effects and the disco specification
MaxEffectLines == 2

\* ------------------------------------------------------- program constants
\* one clock unit of the model in milliseconds: the flash wait (server.ts:234)
MsPerUnit == 500
FlashWaitMs == 500
DefaultTimes == 3
DefaultDuration == 30
DefaultSpeed == 500
MaxBri == 254
MiredNumerator == 1000000
\* the documented ranges of brightness (server.ts:9) and temperature (server.ts:13)
MaxBrightness == 100
MinKelvin == 2000
MaxKelvin == 6500

Conns == 1..MaxConns

Colors ==
  << <<255, 0, 0>>, <<255, 0, 255>>, <<0, 0, 255>>,
     <<0, 255, 255>>, <<0, 255, 0>>, <<255, 255, 0>> >>

HelloMessage ==
  [type |-> "hello", version |-> "1.0.0",
   capabilities |-> << "lights", "colors", "flash", "brightness", "effects",
                       "temperature", "scenes", "groups", "disco" >>]

\* messages of the exceptions the runtime raises
SyntaxErrorMessage == "Unexpected end of JSON input"
NullTypeErrorMessage == "Cannot read properties of null (reading 'type')"
UndefinedGroupsMessage == "Cannot read properties of undefined (reading 'groups')"

\* messages a failing bridge call may carry: none, or some text
BridgeMessages == {"", "bridge failure"}

\* ------------------------------------------------------------ JSON values
\* A decoded object is a record holding exactly the fields the text gave;
\* the JSON literal null is the one value that is not an object.
NullJson == [json |-> "null"]
IsNull(v) == "json" \in DOMAIN v
Has(v, f) == f \in DOMAIN v
\* !v.f for a string field, a number field, and an array field (arrays are truthy)
NotStr(v, f) == ~Has(v, f) \/ v[f] = ""
NotNum(v, f) == ~Has(v, f) \/ v[f] = 0
\* (mutant) the array field is not checked
NotArrLax(v, f) == FALSE
NotArr(v, f) == ~Has(v, f)
\* v.f || d for a number field
NumOr(v, f, d) == IF NotNum(v, f) THEN d ELSE v[f]
\* (mutant) the message without a default
MsgOrBare(m, d) == m
\* e.message || d
MsgOr(m, d) == IF m = "" THEN d ELSE m
\* Math.round(num / den) for num >= 0, den > 0
Round(num, den) == (2 * num + den) \div (2 * den)
\* (mutant) Math.floor in place of Math.round
BriFloor(command) == (command.brightness * MaxBri) \div MaxBrightness
\* Math.round((command.brightness / 100) * 254)
Bri(command) == Round(command.brightness * MaxBri, MaxBrightness)
\* (mutant) the division without the rounding, cut to an integer
MiredCut(command) == MiredNumerator \div command.temperature
\* Math.round(1000000 / command.temperature)
Mired(command) == Round(MiredNumerator, command.temperature)

\* ------------------------------------------------------------- wire text
\* The text of a JSON value is two pieces, so that a read may end inside it;
\* NL is the newline.
NL == [part |-> "nl"]
Front(v) == [part |-> "front", of |-> v]
Back(v) == [part |-> "back", of |-> v]
Line(v) == << Front(v), Back(v), NL >>
\* a line cut short, and an empty line
Truncated(v) == << Front(v), NL >>
EmptyLine == << NL >>

\* JSON.parse: the value, or a SyntaxError
JSONparse(message) ==
  IF /\ Len(message) = 2
     /\ message[1].part = "front"
     /\ message[2].part = "back"
     /\ message[1].of = message[2].of
  THEN [ok |-> TRUE, value |-> message[1].of]
  ELSE [ok |-> FALSE, value |-> NullJson]

\* buffer.indexOf('\n'), counted from 1; 0 when there is none
RECURSIVE IndexOfFrom(_, _)
IndexOfFrom(buf, i) ==
  IF i > Len(buf) THEN 0
  ELSE IF buf[i].part = "nl" THEN i
  ELSE IndexOfFrom(buf, i + 1)
IndexOfNL(buf) == IndexOfFrom(buf, 1)

\* --------------------------------------------------------------- the state
VARIABLES
  env,          \* process.env: which of HUE_BRIDGE_IP, HUE_USERNAME are set
  server,       \* position of main / startMCPServer
  exitCode,     \* process exit code, -1 while the process runs
  state,        \* the module-level state: bridge handle and cached lights
  bridgeLights, \* the lights as the bridge itself holds them
  sockets,      \* per connection: "none", "open" or "destroyed"
  wire,         \* per connection: text the client wrote, not yet read
  buffer,       \* per connection: the accumulator of the 'data' handler
  recv,         \* per connection: all text read so far (history)
  reads,        \* per connection: the length of each read so far (history)
  handed,       \* per connection: the messages passed to handleMessage (history)
  out,          \* per connection: the lines the server wrote, in order
  tasks,        \* the handleMessage invocations, by number
  micro,        \* the microtask queue: settled awaits not yet resumed
  pending,      \* bridge calls issued and not yet answered
  jobs,         \* the disco intervals, by number
  now,          \* the clock
  lines         \* lines the clients wrote so far

vars ==
  << env, server, exitCode, state, bridgeLights, sockets, wire, buffer, recv,
     reads, handed, out, tasks, micro, pending, jobs, now, lines >>

\* ------------------------------------------------------------- the bridge
Lights == {"1"}
LightOff == [on |-> FALSE, bri |-> 0, rgb |-> <<0, 0, 0>>, ct |-> 0, effect |-> "none"]
\* bridge.lights.getAll() at a moment
GetAllLights(bl) ==
  << [id |-> "1", name |-> "Lamp 1", state |-> bl["1"]] >>
BridgeGroups ==
  << [id |-> "1", name |-> "Room", lights |-> << "1" >>, state |-> [all_on |-> FALSE],
      class |-> "Living room"] >>
BridgeScenes ==
  << [id |-> "s1", name |-> "Relax", lights |-> << "1" >>, owner |-> "app"] >>
\* what a successful setLightState does to a light
ApplyState(old, st) ==
  [f \in DOMAIN old |-> IF f \in DOMAIN st THEN st[f] ELSE old[f]]

\* --------------------------------------------------- the command interpreter
ErrorResponse(text) == [type |-> "error", error |-> text]
SuccessResponse == [type |-> "success", success |-> TRUE]
\* (mutant) a command without a type is taken for a get_lights
CommandTypeDefaulted(command) == IF Has(command, "type") THEN command.type ELSE "get_lights"
\* command.type as the switch sees it
CommandType(command) == IF Has(command, "type") THEN command.type ELSE "undefined"

\* what a run of handleCommand does up to its next await
Return(res) == [k |-> "return", res |-> res]
Throw(msg) == [k |-> "throw", msg |-> msg]
Call(api, target, st, step) ==
  [k |-> "call", api |-> api, target |-> target, st |-> st, step |-> step]
Sleep(ms, step) == [k |-> "sleep", ms |-> ms, step |-> step]
SetInterval(duration, speed) == [k |-> "interval", duration |-> duration, speed |-> speed]

\* (mutant) the colour without the brightness
OnColorDim(command) ==
  [on |-> TRUE,
   rgb |-> IF Has(command, "color") THEN command.color ELSE << >>]

\* { on: true, bri: 254, rgb: command.color }; an absent color reads as undefined,
\* written << >>
OnColor(command) ==
  [on |-> TRUE, bri |-> MaxBri,
   rgb |-> IF Has(command, "color") THEN command.color ELSE << >>]

\* (mutant) get_lights answered from the bridge's present lights
GetLightsFresh ==
  Return([type |-> "lights_list", lights |-> GetAllLights(bridgeLights)])

\* case 'get_lights'
GetLights == Return([type |-> "lights_list",
                     lights |-> [n \in DOMAIN state.lights |->
                       [id |-> state.lights[n].id, name |-> state.lights[n].name,
                        state |-> state.lights[n].state]]])

\* the head of the flash loop: i < times, else the closing call
FlashLoop(command, i) ==
  IF i < NumOr(command, "times", DefaultTimes)
  THEN Call("setLightState", command.lightId, OnColor(command), "on")
  ELSE Call("setLightState", command.lightId, OnColor(command), "final")

\* case 'set_group_state': the local object named state, built from the command
GroupState(command) ==
  LET s0 == [x \in {} |-> 0]
      s1 == IF ~NotArr(command, "color") THEN s0 @@ [rgb |-> command.color] ELSE s0
      s2 == IF Has(command, "brightness")
            THEN s1 @@ [bri |-> Bri(command)] ELSE s1
      s3 == IF ~NotNum(command, "temperature")
            THEN s2 @@ [ct |-> Mired(command)] ELSE s2
      s4 == IF ~NotStr(command, "effectType")
            THEN s3 @@ [effect |-> command.effectType] ELSE s3
  IN s4
\* state.bridge.groups.setGroupState(...) with state the local object: the call is
\* made only when that object has a bridge field, else reading .groups raises
SetGroupState(command) ==
  IF Has(GroupState(command), "bridge")
  THEN Call("setGroupState", command.group, GroupState(command), "only")
  ELSE Return(ErrorResponse(MsgOr(UndefinedGroupsMessage, "Failed to set group state")))

\* handleCommand from its entry to its first await or its return
HandleCommand(command) ==
  IF IsNull(command) THEN Throw(NullTypeErrorMessage)
  ELSE CASE CommandType(command) = "get_lights" -> GetLights
    [] CommandType(command) = "get_groups" -> Call("groups.getAll", "", [x \in {} |-> 0], "only")
    [] CommandType(command) = "get_scenes" -> Call("scenes.getAll", "", [x \in {} |-> 0], "only")
    [] CommandType(command) = "set_color" ->
         IF NotStr(command, "lightId") \/ NotArr(command, "color")
         THEN Return(ErrorResponse("Missing lightId or color"))
         ELSE Call("setLightState", command.lightId, OnColor(command), "only")
    [] CommandType(command) = "flash" ->
         IF NotStr(command, "lightId") \/ NotArr(command, "color")
         THEN Return(ErrorResponse("Missing lightId or color"))
         ELSE FlashLoop(command, 0)
    [] CommandType(command) = "set_brightness" ->
         IF NotStr(command, "lightId") \/ ~Has(command, "brightness")
         THEN Return(ErrorResponse("Missing lightId or brightness"))
         ELSE Call("setLightState", command.lightId,
                   [on |-> TRUE, bri |-> Bri(command)], "only")
    [] CommandType(command) = "set_effect" ->
         IF NotStr(command, "lightId") \/ NotStr(command, "effectType")
         THEN Return(ErrorResponse("Missing lightId or effectType"))
         ELSE Call("setLightState", command.lightId, [effect |-> command.effectType], "only")
    [] CommandType(command) = "set_temperature" ->
         IF NotStr(command, "lightId") \/ NotNum(command, "temperature")
         THEN Return(ErrorResponse("Missing lightId or temperature"))
         ELSE Call("setLightState", command.lightId,
                   [on |-> TRUE, ct |-> Mired(command)], "only")
    [] CommandType(command) = "activate_scene" ->
         IF NotStr(command, "scene")
         THEN Return(ErrorResponse("Missing scene identifier"))
         ELSE Call("activateScene", command.scene, [x \in {} |-> 0], "only")
    [] CommandType(command) = "set_group_state" ->
         IF NotStr(command, "group")
         THEN Return(ErrorResponse("Missing group identifier"))
         ELSE SetGroupState(command)
    [] CommandType(command) = "disco" ->
         IF NotStr(command, "lightId")
         THEN Return(ErrorResponse("Missing lightId"))
         ELSE SetInterval(NumOr(command, "duration", DefaultDuration),
                          NumOr(command, "speed", DefaultSpeed))
    [] CommandType(command) = "turn_off" ->
         IF NotStr(command, "lightId")
         THEN Return(ErrorResponse("Missing lightId"))
         ELSE Call("setLightState", command.lightId, [on |-> FALSE], "only")
    [] OTHER -> Return(ErrorResponse("Unknown command"))

\* the default text of the catch clause of each case
DefaultError(type) ==
  CASE type = "set_color" -> "Failed to set light color"
    [] type = "flash" -> "Failed to flash light"
    [] type = "set_brightness" -> "Failed to set brightness"
    [] type = "set_effect" -> "Failed to set effect"
    [] type = "set_temperature" -> "Failed to set color temperature"
    [] type = "activate_scene" -> "Failed to activate scene"
    [] type = "set_group_state" -> "Failed to set group state"
    [] type = "turn_off" -> "Failed to turn off light"
    [] OTHER -> ""

\* (mutant) a flash that carries on after a call of its sequence raised
AfterCallResilient(command, step, i, ok, msg) ==
  CASE CommandType(command) = "get_groups" ->
         IF ok THEN Return([type |-> "groups_list",
                            groups |-> [n \in DOMAIN BridgeGroups |->
                              [id |-> BridgeGroups[n].id, name |-> BridgeGroups[n].name,
                               lights |-> BridgeGroups[n].lights,
                               state |-> BridgeGroups[n].state]]])
         ELSE Throw(msg)
    [] CommandType(command) = "get_scenes" ->
         IF ok THEN Return([type |-> "scenes_list",
                            scenes |-> [n \in DOMAIN BridgeScenes |->
                              [id |-> BridgeScenes[n].id, name |-> BridgeScenes[n].name,
                               lights |-> BridgeScenes[n].lights]]])
         ELSE Throw(msg)
    [] CommandType(command) = "flash" ->
         IF step = "on" THEN Sleep(FlashWaitMs, "wait1")
         ELSE IF step = "off" THEN Sleep(FlashWaitMs, "wait2")
         ELSE IF ~ok THEN Return(ErrorResponse(MsgOr(msg, DefaultError("flash"))))
         ELSE Return(SuccessResponse)
    [] OTHER ->
         IF ok THEN Return(SuccessResponse)
         ELSE Return(ErrorResponse(MsgOr(msg, DefaultError(CommandType(command)))))

\* handleCommand resumed after the call of `step` was answered (ok, or raising msg)
AfterCall(command, step, i, ok, msg) ==
  CASE CommandType(command) = "get_groups" ->
         IF ok THEN Return([type |-> "groups_list",
                            groups |-> [n \in DOMAIN BridgeGroups |->
                              [id |-> BridgeGroups[n].id, name |-> BridgeGroups[n].name,
                               lights |-> BridgeGroups[n].lights,
                               state |-> BridgeGroups[n].state]]])
         ELSE Throw(msg)
    [] CommandType(command) = "get_scenes" ->
         IF ok THEN Return([type |-> "scenes_list",
                            scenes |-> [n \in DOMAIN BridgeScenes |->
                              [id |-> BridgeScenes[n].id, name |-> BridgeScenes[n].name,
                               lights |-> BridgeScenes[n].lights]]])
         ELSE Throw(msg)
    [] CommandType(command) = "flash" ->
         IF ~ok THEN Return(ErrorResponse(MsgOr(msg, DefaultError("flash"))))
         ELSE IF step = "on" THEN Sleep(FlashWaitMs, "wait1")
         ELSE IF step = "off" THEN Sleep(FlashWaitMs, "wait2")
         ELSE Return(SuccessResponse)
    [] OTHER ->
         IF ok THEN Return(SuccessResponse)
         ELSE Return(ErrorResponse(MsgOr(msg, DefaultError(CommandType(command)))))

\* handleCommand resumed after the wait of `step` elapsed (flash only)
AfterSleep(command, step, i) ==
  IF step = "wait1"
  THEN Call("setLightState", command.lightId, [on |-> FALSE], "off")
  ELSE FlashLoop(command, i + 1)

\* (mutant) the catch clause passes the exception's message on as it is
HandleMessageCatchBare(msg) == ErrorResponse(msg)
\* the catch clause of handleMessage
HandleMessageCatch(msg) == ErrorResponse(MsgOr(msg, "Invalid command format"))

\* ------------------------------------------------------------ the event loop
\* The part of the state a handler run changes, as one record.
Machine ==
  [tasks |-> tasks, micro |-> micro, pending |-> pending, jobs |-> jobs,
   out |-> out, handed |-> handed]

NoState == [x \in {} |-> 0]
NewTask(c, message, command) ==
  [conn |-> c, message |-> message, command |-> command, pc |-> "start",
   step |-> "none", i |-> 0, res |-> ErrorResponse(""), due |-> 0,
   log |-> << >>, waits |-> 0, raised |-> FALSE, rejected |-> FALSE,
   rejectMsg |-> ""]

\* (mutant) every response goes to the first connection
SocketWriteFirst(M, c, id, body) ==
  [M EXCEPT !.out[1] = Append(@, [re |-> id, body |-> body])]

\* socket.write(JSON.stringify(body) + '\n') for the message of task id
SocketWrite(M, c, id, body) ==
  [M EXCEPT !.out[c] = Append(@, [re |-> id, body |-> body])]

\* (mutant) the response is written at once, without a turn of the microtask queue
SettleNow(M, id, res) ==
  [SocketWrite(M, M.tasks[id].conn, id, res)
     EXCEPT !.tasks[id].pc = "done", !.tasks[id].res = res]

\* the promise handleMessage awaits settles with res: its continuation is queued
Settle(M, id, res) ==
  [M EXCEPT !.tasks[id].pc = "settled", !.tasks[id].res = res,
            !.micro = Append(@, [kind |-> "task", id |-> id, ok |-> TRUE, msg |-> ""])]

\* (mutant) the callback is also run once, at once, when the interval is set
StartIntervalEager(M, id, o, clock) ==
  LET st == [on |-> TRUE, bri |-> MaxBri, rgb |-> Colors[1], transitiontime |-> 0]
  IN [M EXCEPT !.jobs = Append(@,
        [task |-> id, light |-> M.tasks[id].command.lightId,
         duration |-> o.duration, speed |-> o.speed,
         colorIndex |-> 0, startTime |-> clock, active |-> TRUE,
         due |-> clock + o.speed \div MsPerUnit,
         issued |-> 1, last |-> st, lastIndex |-> 0,
         refused |-> FALSE, overran |-> FALSE]),
               !.pending = Append(@, [kind |-> "tick", id |-> Len(M.jobs) + 1,
                                      api |-> "setLightState",
                                      target |-> M.tasks[id].command.lightId, st |-> st])]

\* setInterval(callback, speed) of the disco case, with its closure variables
StartInterval(M, id, o, clock) ==
  [M EXCEPT !.jobs = Append(@,
     [task |-> id, light |-> M.tasks[id].command.lightId,
      duration |-> o.duration, speed |-> o.speed,
      colorIndex |-> 0, startTime |-> clock, active |-> TRUE,
      due |-> clock + o.speed \div MsPerUnit,
      issued |-> 0, last |-> NoState, lastIndex |-> 0,
      refused |-> FALSE, overran |-> FALSE])]

\* (mutant) a new disco job first clears the intervals running for its light
ApplyDedup(M, id, o, clock) ==
  CASE o.k = "return" -> Settle(M, id, o.res)
    [] o.k = "throw" ->
         Settle([M EXCEPT !.tasks[id].raised = TRUE], id, HandleMessageCatch(o.msg))
    [] o.k = "call" ->
         [M EXCEPT !.tasks[id].pc = "call", !.tasks[id].step = o.step,
                   !.tasks[id].log = Append(@, [api |-> o.api, target |-> o.target,
                                                 st |-> o.st]),
                   !.pending = Append(@, [kind |-> "task", id |-> id, api |-> o.api,
                                          target |-> o.target, st |-> o.st])]
    [] o.k = "sleep" ->
         [M EXCEPT !.tasks[id].pc = "sleep", !.tasks[id].step = o.step,
                   !.tasks[id].due = clock + o.ms \div MsPerUnit,
                   !.tasks[id].waits = @ + 1]
    [] o.k = "interval" ->
         Settle(StartInterval(
                  [M EXCEPT !.jobs = [j \in DOMAIN M.jobs |->
                     IF M.jobs[j].light = M.tasks[id].command.lightId
                     THEN [M.jobs[j] EXCEPT !.active = FALSE] ELSE M.jobs[j]]],
                  id, o, clock), id, SuccessResponse)

\* carry out what handleCommand did for task id up to its next await
Apply(M, id, o, clock) ==
  CASE o.k = "return" -> Settle(M, id, o.res)
    [] o.k = "throw" ->
         Settle([M EXCEPT !.tasks[id].raised = TRUE], id, HandleMessageCatch(o.msg))
    [] o.k = "call" ->
         [M EXCEPT !.tasks[id].pc = "call", !.tasks[id].step = o.step,
                   !.tasks[id].log = Append(@, [api |-> o.api, target |-> o.target,
                                                 st |-> o.st]),
                   !.pending = Append(@, [kind |-> "task", id |-> id, api |-> o.api,
                                          target |-> o.target, st |-> o.st])]
    [] o.k = "sleep" ->
         [M EXCEPT !.tasks[id].pc = "sleep", !.tasks[id].step = o.step,
                   !.tasks[id].due = clock + o.ms \div MsPerUnit,
                   !.tasks[id].waits = @ + 1]
    [] o.k = "interval" -> Settle(StartInterval(M, id, o, clock), id, SuccessResponse)

\* (mutant) a line that does not parse is dropped without an answer
HandleMessageSilent(M, c, message, clock) ==
  LET id == Len(M.tasks) + 1
      parsed == JSONparse(message)
      M1 == [M EXCEPT !.tasks = Append(@, NewTask(c, message, parsed.value)),
                      !.handed[c] = Append(@, message)]
  IN IF ~parsed.ok
     THEN [M1 EXCEPT !.tasks[id].pc = "done", !.tasks[id].raised = TRUE]
     ELSE Apply(M1, id, HandleCommand(parsed.value), clock)

\* handleMessage(message, socket) from its entry to its first await
HandleMessage(M, c, message, clock) ==
  LET id == Len(M.tasks) + 1
      parsed == JSONparse(message)
      M1 == [M EXCEPT !.tasks = Append(@, NewTask(c, message, parsed.value)),
                      !.handed[c] = Append(@, message)]
  IN IF ~parsed.ok
     THEN [SocketWrite(M1, c, id, HandleMessageCatch(SyntaxErrorMessage))
             EXCEPT !.tasks[id].pc = "done", !.tasks[id].raised = TRUE]
     ELSE Apply(M1, id, HandleCommand(parsed.value), clock)

\* (mutant) an if in place of the while: one message a read
ProcessBufferOnce(M, c, buf, clock) ==
  LET newlineIndex == IndexOfNL(buf)
  IN IF newlineIndex = 0
     THEN [machine |-> M, buffer |-> buf]
     ELSE [machine |-> HandleMessage(M, c, SubSeq(buf, 1, newlineIndex - 1), clock),
           buffer |-> SubSeq(buf, newlineIndex + 1, Len(buf))]

\* the while loop of the 'data' handler: the machine and the buffer it leaves
RECURSIVE ProcessBuffer(_, _, _, _)
ProcessBuffer(M, c, buf, clock) ==
  LET newlineIndex == IndexOfNL(buf)
  IN IF newlineIndex = 0
     THEN [machine |-> M, buffer |-> buf]
     ELSE ProcessBuffer(HandleMessage(M, c, SubSeq(buf, 1, newlineIndex - 1), clock),
                        c, SubSeq(buf, newlineIndex + 1, Len(buf)), clock)

\* (mutant) a tick whose call raised reports it to the client and clears the interval
RunEntryReporting(M, e, clock) ==
  IF e.kind = "tick"
  THEN \* the interval callback after its setLightState call
    LET j == M.jobs[e.id]
        late == (clock - j.startTime) * MsPerUnit >= j.duration * 1000
    IN IF e.ok
       THEN [M EXCEPT !.jobs[e.id].colorIndex = (@ + 1) % Len(Colors),
                      !.jobs[e.id].active = IF late THEN FALSE ELSE @,
                      !.jobs[e.id].overran = @ \/ late]
       ELSE [SocketWrite(M, M.tasks[j.task].conn, j.task,
                         ErrorResponse(MsgOr(e.msg, "Failed to start disco effect")))
               EXCEPT !.jobs[e.id].refused = TRUE,
                      !.jobs[e.id].active = FALSE,
                      !.jobs[e.id].overran = @ \/ late]
  ELSE
    LET t == M.tasks[e.id]
    IN CASE t.pc = "settled" ->
              [SocketWrite(M, t.conn, e.id, t.res) EXCEPT !.tasks[e.id].pc = "done"]
         [] t.pc = "call" ->
              Apply([M EXCEPT !.tasks[e.id].rejected = @ \/ ~e.ok,
                              !.tasks[e.id].rejectMsg = IF e.ok THEN @ ELSE e.msg],
                    e.id, AfterCall(t.command, t.step, t.i, e.ok, e.msg), clock)
         [] t.pc = "woken" ->
              Apply([M EXCEPT !.tasks[e.id].i = IF t.step = "wait2" THEN @ + 1 ELSE @],
                    e.id, AfterSleep(t.command, t.step, t.i), clock)

\* a microtask: the continuation of a settled await
RunEntry(M, e, clock) ==
  IF e.kind = "tick"
  THEN \* the interval callback after its setLightState call
    LET j == M.jobs[e.id]
        late == (clock - j.startTime) * MsPerUnit >= j.duration * 1000
    IN IF e.ok
       THEN [M EXCEPT !.jobs[e.id].colorIndex = (@ + 1) % Len(Colors),
                      !.jobs[e.id].active = IF late THEN FALSE ELSE @,
                      !.jobs[e.id].overran = @ \/ late]
       ELSE [M EXCEPT !.jobs[e.id].refused = TRUE,
                      !.jobs[e.id].overran = @ \/ late]
  ELSE
    LET t == M.tasks[e.id]
    IN CASE t.pc = "settled" ->
              [SocketWrite(M, t.conn, e.id, t.res) EXCEPT !.tasks[e.id].pc = "done"]
         [] t.pc = "call" ->
              Apply([M EXCEPT !.tasks[e.id].rejected = @ \/ ~e.ok,
                              !.tasks[e.id].rejectMsg = IF e.ok THEN @ ELSE e.msg],
                    e.id, AfterCall(t.command, t.step, t.i, e.ok, e.msg), clock)
         [] t.pc = "woken" ->
              Apply([M EXCEPT !.tasks[e.id].i = IF t.step = "wait2" THEN @ + 1 ELSE @],
                    e.id, AfterSleep(t.command, t.step, t.i), clock)

Remove(seq, n) == SubSeq(seq, 1, n - 1) \o SubSeq(seq, n + 1, Len(seq))
Idle == micro = << >>

Install(M) ==
  /\ tasks' = M.tasks
  /\ micro' = M.micro
  /\ pending' = M.pending
  /\ jobs' = M.jobs
  /\ out' = M.out
  /\ handed' = M.handed
\* ------------------------------------------------------------------ startup
Init ==
  /\ env \in [host : BOOLEAN, username : BOOLEAN]
  /\ server = "init"
  /\ exitCode = -1
  /\ state = [bridge |-> "null", lights |-> << >>]
  /\ bridgeLights = [l \in Lights |-> LightOff]
  /\ sockets = [c \in Conns |-> "none"]
  /\ wire = [c \in Conns |-> << >>]
  /\ buffer = [c \in Conns |-> << >>]
  /\ recv = [c \in Conns |-> << >>]
  /\ reads = [c \in Conns |-> << >>]
  /\ handed = [c \in Conns |-> << >>]
  /\ out = [c \in Conns |-> << >>]
  /\ tasks = << >>
  /\ micro = << >>
  /\ pending = << >>
  /\ jobs = << >>
  /\ now = 0
  /\ lines = 0

Session == << sockets, wire, buffer, recv, reads, handed, out, tasks, micro, pending,
              jobs, now, lines >>

\* main -> startMCPServer -> initializeHueBridge up to connect(username); with the
\* host or the credential missing it raises, and main exits with code 1
Main ==
  /\ server = "init"
  /\ IF env.host /\ env.username
     THEN server' = "connecting" /\ exitCode' = exitCode
     ELSE server' = "exited" /\ exitCode' = 1
  /\ UNCHANGED << env, state, bridgeLights, Session >>

\* connect(username) answered: the handle is stored and lights.getAll() is called
ConnectReply ==
  /\ server = "connecting"
  /\ \/ /\ state' = [state EXCEPT !.bridge = "session"]
        /\ server' = "fetching"
        /\ exitCode' = exitCode
     \/ /\ server' = "exited"
        /\ exitCode' = 1
        /\ state' = state
  /\ UNCHANGED << env, bridgeLights, Session >>

\* (mutant) a failed fetch is logged and the server listens all the same
LightsReplyLenient ==
  /\ server = "fetching"
  /\ \/ /\ state' = [state EXCEPT !.lights = GetAllLights(bridgeLights)]
        /\ server' = "listening"
        /\ exitCode' = exitCode
     \/ /\ server' = "listening"
        /\ exitCode' = exitCode
        /\ state' = state
  /\ UNCHANGED << env, bridgeLights, Session >>

\* lights.getAll() answered: the list is cached and the server listens
LightsReply ==
  /\ server = "fetching"
  /\ \/ /\ state' = [state EXCEPT !.lights = GetAllLights(bridgeLights)]
        /\ server' = "listening"
        /\ exitCode' = exitCode
     \/ /\ server' = "exited"
        /\ exitCode' = 1
        /\ state' = state
  /\ UNCHANGED << env, bridgeLights, Session >>

\* ------------------------------------------------------------------ session
\* (mutant) the connection callback without its hello line
AcceptSilent(c) ==
  /\ server = "listening"
  /\ Idle
  /\ sockets[c] = "none"
  /\ \A d \in Conns : d < c => sockets[d] # "none"
  /\ sockets' = [sockets EXCEPT ![c] = "open"]
  /\ buffer' = [buffer EXCEPT ![c] = << >>]
  /\ UNCHANGED << env, server, exitCode, state, bridgeLights, wire, recv, reads, handed,
                  out, tasks, micro, pending, jobs, now, lines >>

\* the connection callback of createServer: a fresh buffer, the 'data' handler,
\* and the hello line
Accept(c) ==
  /\ server = "listening"
  /\ Idle
  /\ sockets[c] = "none"
  /\ \A d \in Conns : d < c => sockets[d] # "none"
  /\ sockets' = [sockets EXCEPT ![c] = "open"]
  /\ buffer' = [buffer EXCEPT ![c] = << >>]
  /\ out' = [out EXCEPT ![c] = Append(@, [re |-> 0, body |-> HelloMessage])]
  /\ UNCHANGED << env, server, exitCode, state, bridgeLights, wire, recv, reads, handed,
                  tasks, micro, pending, jobs, now, lines >>

\* a client writes one line of text on its connection
ClientWrite(c, text, limit) ==
  /\ sockets[c] = "open"
  /\ lines < limit
  /\ wire' = [wire EXCEPT ![c] = @ \o text]
  /\ lines' = lines + 1
  /\ UNCHANGED << env, server, exitCode, state, bridgeLights, sockets, buffer, recv,
                  reads, handed, out, tasks, micro, pending, jobs, now >>

\* a client that waits for the answer to its last line, and for the disco jobs
\* it started to stop, before it writes the next
ClientAsk(c, text, limit) ==
  /\ \A id \in DOMAIN tasks : tasks[id].pc = "done"
  /\ \A j \in DOMAIN jobs : ~jobs[j].active
  /\ wire[c] = << >>
  /\ buffer[c] = << >>
  /\ ClientWrite(c, text, limit)

\* a client that sends one command in its session
ClientOnce(c, text) ==
  /\ sockets[c] = "open"
  /\ tasks = << >>
  /\ wire[c] = << >>
  /\ buffer[c] = << >>
  /\ wire' = [wire EXCEPT ![c] = @ \o text]
  /\ lines' = lines + 1
  /\ UNCHANGED << env, server, exitCode, state, bridgeLights, sockets, buffer, recv,
                  reads, handed, out, tasks, micro, pending, jobs, now >>

\* (mutant) a serialized handler: while a command is being handled the text read
\* is kept in the accumulator and no message is extracted
DataQueued(c, n) ==
  /\ sockets[c] = "open"
  /\ Idle
  /\ n \in 1..Len(wire[c])
  /\ LET data == SubSeq(wire[c], 1, n)
         busy == \E id \in DOMAIN tasks : tasks[id].pc # "done"
         r == IF busy THEN [machine |-> Machine, buffer |-> buffer[c] \o data]
              ELSE ProcessBufferOnce(Machine, c, buffer[c] \o data, now)
     IN /\ Install(r.machine)
        /\ buffer' = [buffer EXCEPT ![c] = r.buffer]
        /\ recv' = [recv EXCEPT ![c] = @ \o data]
        /\ reads' = [reads EXCEPT ![c] = Append(@, n)]
        /\ wire' = [wire EXCEPT ![c] = SubSeq(@, n + 1, Len(@))]
  /\ UNCHANGED << env, server, exitCode, state, bridgeLights, sockets, now, lines >>

\* the 'data' handler with a read of the first n pieces on the wire
Data(c, n) ==
  /\ sockets[c] = "open"
  /\ Idle
  /\ n \in 1..Len(wire[c])
  /\ LET data == SubSeq(wire[c], 1, n)
         r == ProcessBuffer(Machine, c, buffer[c] \o data, now)
     IN /\ Install(r.machine)
        /\ buffer' = [buffer EXCEPT ![c] = r.buffer]
        /\ recv' = [recv EXCEPT ![c] = @ \o data]
        /\ reads' = [reads EXCEPT ![c] = Append(@, n)]
        /\ wire' = [wire EXCEPT ![c] = SubSeq(@, n + 1, Len(@))]
  /\ UNCHANGED << env, server, exitCode, state, bridgeLights, sockets, now, lines >>

\* the next microtask runs
RunMicrotask ==
  /\ micro # << >>
  /\ Install(RunEntry([Machine EXCEPT !.micro = Tail(@)], Head(micro), now))
  /\ UNCHANGED << env, server, exitCode, state, bridgeLights, sockets, wire, buffer,
                  recv, reads, now, lines >>

\* the bridge answers the n-th outstanding call: it took effect
BridgeResolve(n) ==
  /\ Idle
  /\ n \in 1..Len(pending)
  /\ LET call == pending[n]
     IN /\ micro' = Append(micro, [kind |-> call.kind, id |-> call.id,
                                   ok |-> TRUE, msg |-> ""])
        /\ bridgeLights' =
             IF call.api = "setLightState" /\ call.target \in Lights
             THEN [bridgeLights EXCEPT ![call.target] = ApplyState(@, call.st)]
             ELSE bridgeLights
  /\ pending' = Remove(pending, n)
  /\ UNCHANGED << env, server, exitCode, state, sockets, wire, buffer, recv, reads, handed,
                  out, tasks, jobs, now, lines >>

\* the n-th outstanding call raises, with message msg
BridgeReject(n, msg) ==
  /\ Idle
  /\ n \in 1..Len(pending)
  /\ micro' = Append(micro, [kind |-> pending[n].kind, id |-> pending[n].id,
                             ok |-> FALSE, msg |-> msg])
  /\ pending' = Remove(pending, n)
  /\ UNCHANGED << env, server, exitCode, state, bridgeLights, sockets, wire, buffer,
                  recv, reads, handed, out, tasks, jobs, now, lines >>

\* the setTimeout of a waiting flash fires
TimeoutFire(id) ==
  /\ Idle
  /\ id \in DOMAIN tasks
  /\ tasks[id].pc = "sleep"
  /\ tasks[id].due <= now
  /\ micro' = Append(micro, [kind |-> "task", id |-> id, ok |-> TRUE, msg |-> ""])
  /\ tasks' = [tasks EXCEPT ![id].pc = "woken"]
  /\ UNCHANGED << env, server, exitCode, state, bridgeLights, sockets, wire, buffer,
                  recv, reads, handed, out, pending, jobs, now, lines >>

\* a disco interval fires: the callback calls setLightState with the colour under
\* the cursor and suspends; the interval is armed again
IntervalFire(j) ==
  /\ Idle
  /\ j \in DOMAIN jobs
  /\ jobs[j].active
  /\ jobs[j].due <= now
  /\ Len(pending) < MaxPending
  /\ LET st == [on |-> TRUE, bri |-> MaxBri, rgb |-> Colors[jobs[j].colorIndex + 1],
                transitiontime |-> 0]
     IN /\ pending' = Append(pending, [kind |-> "tick", id |-> j, api |-> "setLightState",
                                        target |-> jobs[j].light, st |-> st])
        /\ jobs' = [jobs EXCEPT ![j].due = now + jobs[j].speed \div MsPerUnit,
                                ![j].issued = @ + 1,
                                ![j].last = st,
                                ![j].lastIndex = jobs[j].colorIndex]
  /\ UNCHANGED << env, server, exitCode, state, bridgeLights, sockets, wire, buffer,
                  recv, reads, handed, out, tasks, micro, now, lines >>

TimerDue ==
  \/ \E id \in DOMAIN tasks : tasks[id].pc = "sleep" /\ tasks[id].due <= now
  \/ \E j \in DOMAIN jobs : jobs[j].active /\ jobs[j].due <= now
TimerArmed ==
  \/ \E id \in DOMAIN tasks : tasks[id].pc = "sleep"
  \/ \E j \in DOMAIN jobs : jobs[j].active

\* time passes, once the timers that are due have fired
Tick ==
  /\ Idle
  /\ TimerArmed
  /\ ~TimerDue
  /\ now < MaxClock
  /\ now' = now + 1
  /\ UNCHANGED << env, server, exitCode, state, bridgeLights, sockets, wire, buffer,
                  recv, reads, handed, out, tasks, micro, pending, jobs, lines >>
\* ------------------------------------------------------- what clients send
Red == <<255, 0, 0>>
GetLightsCommand == [type |-> "get_lights"]
GetGroupsCommand == [type |-> "get_groups"]
SetColorCommand == [type |-> "set_color", lightId |-> "1", color |-> Red]
FlashOnce == [type |-> "flash", lightId |-> "1", color |-> Red, times |-> 1]
ShortDisco == [type |-> "disco", lightId |-> "1", duration |-> 1]
UnknownCommand == [type |-> "dance"]

SlowDisco == [type |-> "disco", lightId |-> "1", duration |-> 1, speed |-> 1000]
LongDisco == [type |-> "disco", lightId |-> "1", duration |-> 2]

\* the lines of the session specification: malformed text, the literal null, a
\* command answered at once, and commands answered after a bridge call, by the
\* command's own catch clause or by that of handleMessage
SessionMenu ==
  { EmptyLine, Line(NullJson), Line(GetLightsCommand), Line(SetColorCommand),
    Line(GetGroupsCommand) }

Startup == Main \/ ConnectReply \/ LightsReply

Next ==
  \/ Startup
  \/ \E c \in Conns : Accept(c)
  \/ \E c \in Conns, text \in SessionMenu : ClientWrite(c, text, MaxLines)
  \/ \E c \in Conns : Data(c, Len(wire[c]))
  \/ RunMicrotask
  \/ \E n \in 1..MaxLines : BridgeResolve(n)
  \/ \E n \in 1..MaxLines : BridgeReject(n, "bridge failure")

Spec == Init /\ [][Next]_vars

\* the effects specification: the timed commands (a flash, disco jobs of two
\* speeds) beside a set_color for the same light and a get_lights, on every
\* connection and under every order of bridge answers and timers
EffectsMenu ==
  { Line(GetLightsCommand), Line(SetColorCommand), Line(FlashOnce),
    Line(ShortDisco), Line(SlowDisco) }

NextEffects ==
  \/ Startup
  \/ \E c \in Conns : Accept(c)
  \/ \E c \in Conns, text \in EffectsMenu : ClientWrite(c, text, MaxEffectLines)
  \/ \E c \in Conns : Data(c, Len(wire[c]))
  \/ RunMicrotask
  \/ \E n \in 1..(MaxEffectLines + MaxPending) : BridgeResolve(n)
  \/ \E n \in 1..(MaxEffectLines + MaxPending) : BridgeReject(n, "bridge failure")
  \/ \E id \in 1..MaxEffectLines : TimeoutFire(id)
  \/ \E j \in 1..MaxEffectLines : IntervalFire(j)
  \/ Tick

SpecEffects == Init /\ [][NextEffects]_vars

\* the disco specification: one connection whose client starts disco jobs of
\* two durations for the same light, at any instants
DiscoMenu == { Line(ShortDisco), Line(LongDisco) }

NextDisco ==
  \/ Startup
  \/ Accept(1)
  \/ \E text \in DiscoMenu : ClientWrite(1, text, MaxEffectLines)
  \/ Data(1, Len(wire[1]))
  \/ RunMicrotask
  \/ \E n \in 1..MaxPending : BridgeResolve(n)
  \/ \E n \in 1..MaxPending : BridgeReject(n, "bridge failure")
  \/ \E j \in 1..MaxEffectLines : IntervalFire(j)
  \/ Tick

SpecDisco == Init /\ [][NextDisco]_vars

\* the framing specification: every way of cutting the text into reads, with
\* lines that need no bridge
FramingMenu ==
  { EmptyLine, Truncated(GetLightsCommand), Line(GetLightsCommand), Line(UnknownCommand) }

NextFraming ==
  \/ Startup
  \/ \E c \in Conns : Accept(c)
  \/ \E c \in Conns, text \in FramingMenu : ClientWrite(c, text, MaxFramingLines)
  \/ \E c \in Conns, n \in 1..3 * MaxFramingLines : Data(c, n)
  \/ RunMicrotask

SpecFraming == Init /\ [][NextFraming]_vars

\* the commands specification: one connection whose client sends one command at
\* a time, and every command type with its required fields present or missing
\* and its optional fields present or not
Opt(f, values) == { NoState } \cup { f :> v : v \in values }
Typed(t) == "type" :> t
CommandMenu ==
  { NullJson, NoState, UnknownCommand, GetLightsCommand, GetGroupsCommand,
    Typed("get_scenes"), Typed("GET_LIGHTS"), Typed(""),
    [type |-> "set_colour", lightId |-> "1", color |-> Red] }
  \cup { Typed("set_color") @@ a @@ b :
           a \in Opt("lightId", {"1"}), b \in Opt("color", {Red}) }
  \cup { Typed("flash") @@ a @@ b :
           a \in Opt("lightId", {"1"}), b \in Opt("color", {Red}) }
  \cup { Typed("flash") @@ ("lightId" :> "1") @@ ("color" :> Red) @@ ("times" :> n) :
           n \in 0..2 }
  \cup { Typed("set_brightness") @@ a @@ b :
           a \in Opt("lightId", {"1"}), b \in Opt("brightness", {0, 50, 100}) }
  \cup { Typed("set_effect") @@ a @@ b :
           a \in Opt("lightId", {"1"}), b \in Opt("effectType", {"colorloop"}) }
  \cup { Typed("set_temperature") @@ a @@ b :
           a \in Opt("lightId", {"1"}), b \in Opt("temperature", {2000, 6500}) }
  \cup { Typed("activate_scene") @@ a : a \in Opt("scene", {"s1"}) }
  \cup { Typed("set_group_state") @@ a @@ b @@ c @@ d @@ e :
           a \in Opt("group", {"1"}), b \in Opt("color", {Red}),
           c \in Opt("brightness", {50}), d \in Opt("temperature", {4000}),
           e \in Opt("effectType", {"colorloop"}) }
  \cup { Typed("disco") @@ a @@ b @@ c :
           a \in Opt("lightId", {"1"}), b \in Opt("duration", {1}),
           c \in Opt("speed", {1000}) }
  \cup { Typed("turn_off") @@ a : a \in Opt("lightId", {"1"}) }

NextCommands ==
  \/ Startup
  \/ Accept(1)
  \/ \E command \in CommandMenu : ClientAsk(1, Line(command), MaxCommandLines)
  \/ Data(1, Len(wire[1]))
  \/ RunMicrotask
  \/ \E n \in 1..(MaxCommandLines + MaxPending) : BridgeResolve(n)
  \/ \E n \in 1..(MaxCommandLines + MaxPending), msg \in BridgeMessages : BridgeReject(n, msg)
  \/ \E id \in 1..MaxCommandLines : TimeoutFire(id)
  \/ \E j \in 1..MaxCommandLines : IntervalFire(j)
  \/ Tick

SpecCommands == Init /\ [][NextCommands]_vars

\* the numeric specification: one client, one command, over the whole documented
\* range of brightness and of temperature
NumericMenu ==
  { [type |-> "set_brightness", lightId |-> "1", brightness |-> b] : b \in 0..MaxBrightness }
  \cup { [type |-> "set_temperature", lightId |-> "1", temperature |-> k] :
            k \in MinKelvin..MaxKelvin }

NextNumeric ==
  \/ Startup
  \/ Accept(1)
  \/ \E command \in NumericMenu : ClientOnce(1, Line(command))
  \/ Data(1, Len(wire[1]))
  \/ RunMicrotask
  \/ BridgeResolve(1)
  \/ \E msg \in BridgeMessages : BridgeReject(1, msg)

SpecNumeric == Init /\ [][NextNumeric]_vars

\* ------------------------------------------------------------------ claims
\* where the server wrote an answer to the message of task id
Replies(id) ==
  { r \in UNION { {c} \X DOMAIN out[c] : c \in Conns } : out[r[1]][r[2]].re = id }
Queued(id) == \E n \in DOMAIN micro : micro[n].kind = "task" /\ micro[n].id = id
Newlines(text) == Cardinality({ n \in DOMAIN text : text[n].part = "nl" })

\* C1: a line that is not valid JSON, or whose handling raises, is answered by
\* exactly one error line on its own connection and by nothing else, the
\* connection stays open, and every complete line read is still handled.
C1_FailureAnsweredOnce ==
  /\ \A id \in DOMAIN tasks : tasks[id].raised =>
       /\ sockets[tasks[id].conn] = "open"
       /\ \A r \in Replies(id) :
            r[1] = tasks[id].conn /\ out[r[1]][r[2]].body.type = "error"
       /\ Cardinality(Replies(id)) = IF tasks[id].pc = "done" THEN 1 ELSE 0
       /\ tasks[id].pc # "done" =>
            tasks[id].pc = "settled" /\ tasks[id].res.type = "error" /\ Queued(id)
  /\ \A c \in Conns : Len(handed[c]) = Newlines(recv[c])

\* a raising line and a later line of the same connection, both answered, the
\* later one with a light list
C1_Witness ==
  \E a \in DOMAIN tasks, b \in DOMAIN tasks :
    /\ a < b
    /\ tasks[a].conn = tasks[b].conn
    /\ tasks[a].raised /\ tasks[a].pc = "done"
    /\ IsNull(tasks[a].command) /\ Len(tasks[a].message) = 2
    /\ tasks[b].pc = "done"
    /\ \E r \in Replies(b) : out[r[1]][r[2]].body.type = "lights_list"

\* the types of response each command may be answered with
ReplyTypes(command) ==
  IF IsNull(command) THEN {"error"}
  ELSE CASE CommandType(command) = "get_lights" -> {"lights_list"}
         [] CommandType(command) = "get_groups" -> {"groups_list", "error"}
         [] CommandType(command) = "get_scenes" -> {"scenes_list", "error"}
         [] CommandType(command) \in
              {"set_color", "flash", "set_brightness", "set_effect", "set_temperature",
               "activate_scene", "set_group_state", "disco", "turn_off"} ->
              {"success", "error"}
         [] OTHER -> {"error"}

\* C2: every message whose handling has completed has exactly one response line,
\* on the connection it arrived on, of a type its own command can produce; a
\* message still being handled has none, and no line answers an unknown message.
C2_OneReplyPerMessage ==
  /\ \A c \in Conns : \A n \in DOMAIN out[c] :
       out[c][n].re # 0 =>
         /\ out[c][n].re \in DOMAIN tasks
         /\ tasks[out[c][n].re].conn = c
         /\ tasks[out[c][n].re].pc = "done"
         /\ out[c][n].body.type \in
              IF JSONparse(tasks[out[c][n].re].message).ok
              THEN ReplyTypes(JSONparse(tasks[out[c][n].re].message).value)
              ELSE {"error"}
  /\ \A id \in DOMAIN tasks :
       Cardinality(Replies(id)) = IF tasks[id].pc = "done" THEN 1 ELSE 0

\* two messages of one read, both answered, the second one first
C2_Witness ==
  \E c \in Conns :
    /\ Len(reads[c]) = 1
    /\ Len(handed[c]) = 2
    /\ Len(out[c]) = 3
    /\ out[c][2].re > out[c][3].re
    /\ out[c][3].body.type = "success"

\* the text cut at its newlines: the complete segments and the rest
RECURSIVE Scan(_, _, _, _)
Scan(text, i, cur, acc) ==
  IF i > Len(text) THEN [complete |-> acc, rest |-> cur]
  ELSE IF text[i].part = "nl" THEN Scan(text, i + 1, << >>, Append(acc, cur))
  ELSE Scan(text, i + 1, Append(cur, text[i]), acc)
Segments(text) == Scan(text, 1, << >>, << >>)
\* the messages of the handleMessage invocations of a connection, in order
RECURSIVE MessagesOf(_, _)
MessagesOf(c, n) ==
  IF n = 0 THEN << >>
  ELSE IF tasks[n].conn = c THEN Append(MessagesOf(c, n - 1), tasks[n].message)
  ELSE MessagesOf(c, n - 1)

\* C3: whatever the reads were, the messages handed to handleMessage are the
\* newline-terminated segments of all text read, in order and once each, and
\* the accumulator holds exactly the text after the last newline.
C3_FramingIndependentOfReads ==
  \A c \in Conns :
    /\ handed[c] = Segments(recv[c]).complete
    /\ MessagesOf(c, Len(tasks)) = handed[c]
    /\ buffer[c] = Segments(recv[c]).rest

\* a first read that ends inside a line, and a second read that completes that
\* line and holds a whole second one
C3_Witness ==
  \E c \in Conns :
    /\ reads[c] = << 1, 5 >>
    /\ Len(handed[c]) = 2
    /\ Len(handed[c][1]) = 2
    /\ buffer[c] = << >>

\* C6: an accepted connection has the hello message as its first line and no
\* other hello line; nothing is written on a connection not accepted.
C6_HelloFirstAndOnce ==
  \A c \in Conns :
    IF sockets[c] = "none" THEN out[c] = << >>
    ELSE /\ Len(out[c]) >= 1
         /\ out[c][1] = [re |-> 0, body |-> HelloMessage]
         /\ \A n \in DOMAIN out[c] : n > 1 => out[c][n].body.type # "hello"

\* a connection whose client sent a malformed line and a command: hello, then
\* the two answers
C6_Witness ==
  \E c \in Conns :
    /\ Len(out[c]) = 3
    /\ out[c][2].body.type = "error"
    /\ out[c][3].body.type # "error"

\* the light list as fetched at startup
StartupSnapshot == GetAllLights([l \in Lights |-> LightOff])

\* C7: once the server listens, the bridge handle and the cached light list are
\* never written again, and every get_lights response carries the list fetched
\* at startup.
C7_LightsAreStartupSnapshot ==
  /\ server = "listening" => state = [bridge |-> "session", lights |-> StartupSnapshot]
  /\ \A c \in Conns : \A n \in DOMAIN out[c] :
       out[c][n].body.type = "lights_list" =>
         out[c][n].body.lights =
           [k \in DOMAIN StartupSnapshot |->
              [id |-> StartupSnapshot[k].id, name |-> StartupSnapshot[k].name,
               state |-> StartupSnapshot[k].state]]

\* a get_lights answered after a set_color took effect on the bridge
C7_Witness ==
  \E c \in Conns :
    /\ Len(out[c]) = 3
    /\ out[c][2].body.type = "success"
    /\ out[c][3].body.type = "lights_list"
    /\ bridgeLights["1"].on
    /\ bridgeLights["1"].rgb = Red

\* C9: a disco command with a lightId is answered with success whatever the
\* bridge does, and the answer is written before the job's first tick fires,
\* so before any bridge call of the job.
C9_DiscoAnsweredBeforeFirstTick ==
  \A j \in DOMAIN jobs :
    /\ tasks[jobs[j].task].pc \in {"settled", "done"}
    /\ tasks[jobs[j].task].res = SuccessResponse
    /\ tasks[jobs[j].task].pc = "settled" => Queued(jobs[j].task)
    /\ jobs[j].issued > 0 =>
         /\ tasks[jobs[j].task].pc = "done"
         /\ \E r \in Replies(jobs[j].task) : out[r[1]][r[2]].body = SuccessResponse

\* a job that ticked twice after its answer, with a tick call the bridge refused
C9_Witness ==
  \E j \in DOMAIN jobs :
    /\ jobs[j].issued >= 2
    /\ jobs[j].refused
    /\ jobs[j].active
    /\ \E r \in Replies(jobs[j].task) : out[r[1]][r[2]].body = SuccessResponse

\* C10: a disco job whose tick call was answered, accepted or refused, when the
\* time since its start had reached its duration has stopped ticking.
C10_DiscoStopsAtDuration ==
  \A j \in DOMAIN jobs : jobs[j].overran => ~jobs[j].active

\* the fields each command type requires
Required(type) ==
  CASE type \in {"set_color", "flash"} -> {"lightId", "color"}
    [] type = "set_brightness" -> {"lightId", "brightness"}
    [] type = "set_effect" -> {"lightId", "effectType"}
    [] type = "set_temperature" -> {"lightId", "temperature"}
    [] type = "activate_scene" -> {"scene"}
    [] type = "set_group_state" -> {"group"}
    [] type \in {"disco", "turn_off"} -> {"lightId"}
    [] OTHER -> {}
MissingRequired(command) ==
  /\ ~IsNull(command)
  /\ \E f \in Required(CommandType(command)) : ~Has(command, f)
Decoded(id) == JSONparse(tasks[id].message).ok

\* C4: a command that lacks a field its type requires is answered by an error
\* response with a non-empty text and nothing else, and its handling makes no
\* bridge call, waits on no timer and starts no disco job.
C4_MissingFieldIsError ==
  \A id \in DOMAIN tasks :
    Decoded(id) /\ MissingRequired(tasks[id].command) =>
      /\ tasks[id].log = << >>
      /\ tasks[id].waits = 0
      /\ \A n \in DOMAIN pending : ~(pending[n].kind = "task" /\ pending[n].id = id)
      /\ \A j \in DOMAIN jobs : jobs[j].task # id
      /\ tasks[id].pc \in {"settled", "done"}
      /\ DOMAIN tasks[id].res = {"type", "error"}
      /\ tasks[id].res.type = "error"
      /\ tasks[id].res.error # ""
      /\ tasks[id].pc = "done" =>
           \E r \in Replies(id) : out[r[1]][r[2]].body = tasks[id].res

\* a set_color with a lightId and no color, answered
C4_Witness ==
  \E id \in DOMAIN tasks :
    /\ Decoded(id)
    /\ CommandType(tasks[id].command) = "set_color"
    /\ Has(tasks[id].command, "lightId")
    /\ ~Has(tasks[id].command, "color")
    /\ tasks[id].pc = "done"
    /\ \E r \in Replies(id) : out[r[1]][r[2]].body.type = "error"

\* the default texts of the catch clauses
DefaultTexts ==
  { "Invalid command format", "Failed to set light color", "Failed to flash light",
    "Failed to set brightness", "Failed to set effect",
    "Failed to set color temperature", "Failed to activate scene",
    "Failed to set group state", "Failed to turn off light" }

\* C5: a command one of whose bridge calls raised is answered by an error
\* response carrying the bridge's message, or a default text when that message
\* is empty; the connection stays open and the process runs on.
C5_BridgeFailureIsError ==
  \A id \in DOMAIN tasks :
    tasks[id].rejected =>
      /\ tasks[id].pc \in {"settled", "done"}
      /\ tasks[id].res.type = "error"
      /\ tasks[id].res.error =
           IF tasks[id].rejectMsg # "" THEN tasks[id].rejectMsg ELSE tasks[id].res.error
      /\ tasks[id].rejectMsg = "" => tasks[id].res.error \in DefaultTexts
      /\ tasks[id].pc = "done" =>
           /\ Cardinality(Replies(id)) = 1
           /\ \A r \in Replies(id) :
                r[1] = tasks[id].conn /\ out[r[1]][r[2]].body = tasks[id].res
      /\ sockets[tasks[id].conn] = "open"
      /\ exitCode = -1
      /\ server = "listening"

\* a get_groups whose bridge call raised with no message, answered with the
\* default text of handleMessage
C5_Witness ==
  \E id \in DOMAIN tasks :
    /\ CommandType(tasks[id].command) = "get_groups"
    /\ tasks[id].rejected
    /\ tasks[id].rejectMsg = ""
    /\ tasks[id].pc = "done"
    /\ \E r \in Replies(id) :
         out[r[1]][r[2]].body = ErrorResponse("Invalid command format")

\* the calls of a flash of n cycles: on with the colour, off, ..., on with the colour
FlashPattern(command, n) ==
  [k \in 1..(2 * n + 1) |->
     [api |-> "setLightState", target |-> command.lightId,
      st |-> IF k % 2 = 1 THEN [on |-> TRUE, bri |-> 254, rgb |-> command.color]
             ELSE [on |-> FALSE]]]
FlashTimes(command) == IF Has(command, "times") THEN command.times ELSE 3

\* C8: a flash with lightId, color and times = n (3 when omitted) that was
\* answered with success made exactly 2n+1 setLightState calls, on with the
\* colour and off in turn, ending on, and waited 2n times.
C8_FlashCallSequence ==
  \A id \in DOMAIN tasks :
    ( /\ Decoded(id)
      /\ CommandType(tasks[id].command) = "flash"
      /\ ~MissingRequired(tasks[id].command)
      /\ tasks[id].pc = "done"
      /\ tasks[id].res = SuccessResponse ) =>
        /\ tasks[id].log = FlashPattern(tasks[id].command, FlashTimes(tasks[id].command))
        /\ tasks[id].waits = 2 * FlashTimes(tasks[id].command)

\* the time since job j started has reached its duration
Elapsed(j) == (now - jobs[j].startTime) * MsPerUnit >= jobs[j].duration * 1000

\* C11: disco jobs are not deduplicated per light. A step that starts a job
\* leaves every earlier job as it was; a job keeps its light, start time,
\* duration and speed for good; and a running job stops only once its own
\* duration has elapsed, never because another job was started.
C11_DiscoNotDeduplicated ==
  [][ /\ Len(jobs') >= Len(jobs)
      /\ \A j \in DOMAIN jobs :
           /\ Len(jobs') > Len(jobs) => jobs'[j] = jobs[j]
           /\ jobs'[j].light = jobs[j].light
           /\ jobs'[j].startTime = jobs[j].startTime
           /\ jobs'[j].duration = jobs[j].duration
           /\ jobs'[j].speed = jobs[j].speed
           /\ jobs'[j].task = jobs[j].task
           /\ (jobs[j].active /\ ~jobs'[j].active) => Elapsed(j) ]_vars

\* two running jobs for one light, started at different instants, the earlier of
\* which called the bridge after the later was started, each at its own cursor
C11_Witness ==
  \E j \in DOMAIN jobs, k \in DOMAIN jobs :
    /\ j < k
    /\ jobs[j].light = jobs[k].light
    /\ jobs[j].active /\ jobs[k].active
    /\ jobs[j].startTime < jobs[k].startTime
    /\ jobs[j].issued >= 1 /\ jobs[k].issued >= 1
    /\ jobs[j].due - jobs[j].speed \div MsPerUnit > jobs[k].startTime
    /\ jobs[j].colorIndex # jobs[k].colorIndex

\* the integer nearest to num / den, the upper one of two equally near
Nearest(num, den, top) ==
  CHOOSE r \in 0..top : 2 * den * r - den <= 2 * num /\ 2 * num < 2 * den * r + den

\* C13: a set_brightness with a lightId and a brightness b in 0..100 makes exactly
\* one bridge call, setLightState for that light with on = true and
\* bri = round(b / 100 * 254) and nothing else, and that value lies in 0..254.
C13_BrightnessScaled ==
  \A id \in DOMAIN tasks :
    ( /\ Decoded(id)
      /\ CommandType(tasks[id].command) = "set_brightness"
      /\ ~NotStr(tasks[id].command, "lightId")
      /\ Has(tasks[id].command, "brightness")
      /\ tasks[id].command.brightness \in 0..MaxBrightness ) =>
        /\ Len(tasks[id].log) = 1
        /\ tasks[id].log[1].api = "setLightState"
        /\ tasks[id].log[1].target = tasks[id].command.lightId
        /\ DOMAIN tasks[id].log[1].st = {"on", "bri"}
        /\ tasks[id].log[1].st.on
        /\ tasks[id].log[1].st.bri \in 0..MaxBri
        /\ tasks[id].log[1].st.bri =
             Nearest(tasks[id].command.brightness * MaxBri, MaxBrightness, MaxBri)

\* a brightness of 0 that was sent to the bridge as on with bri 0 and took effect
C13_Witness ==
  \E id \in DOMAIN tasks :
    /\ CommandType(tasks[id].command) = "set_brightness"
    /\ tasks[id].command.brightness = 0
    /\ tasks[id].pc = "done"
    /\ tasks[id].res = SuccessResponse
    /\ tasks[id].log[1].st.bri = 0
    /\ bridgeLights["1"].on

\* C14: a set_temperature with a lightId and a temperature k in 2000..6500 makes
\* exactly one bridge call, setLightState for that light with on = true and
\* ct = round(1000000 / k) and nothing else.
C14_TemperatureInMired ==
  \A id \in DOMAIN tasks :
    ( /\ Decoded(id)
      /\ CommandType(tasks[id].command) = "set_temperature"
      /\ ~NotStr(tasks[id].command, "lightId")
      /\ Has(tasks[id].command, "temperature")
      /\ tasks[id].command.temperature \in MinKelvin..MaxKelvin ) =>
        /\ Len(tasks[id].log) = 1
        /\ tasks[id].log[1].api = "setLightState"
        /\ tasks[id].log[1].target = tasks[id].command.lightId
        /\ DOMAIN tasks[id].log[1].st = {"on", "ct"}
        /\ tasks[id].log[1].st.on
        /\ tasks[id].log[1].st.ct =
             Nearest(MiredNumerator, tasks[id].command.temperature,
                     MiredNumerator \div MinKelvin)

\* a temperature whose quotient ends in one half, 3200 K, sent as 313 mired
C14_Witness ==
  \E id \in DOMAIN tasks :
    /\ CommandType(tasks[id].command) = "set_temperature"
    /\ tasks[id].command.temperature = 3200
    /\ tasks[id].pc = "done"
    /\ tasks[id].res = SuccessResponse
    /\ tasks[id].log[1].st.ct = 313
    /\ bridgeLights["1"].ct = 313

\* the partial state a set_group_state command describes: a field for each of
\* color, brightness, temperature and effectType that the command carries
GroupField(f) ==
  CASE f = "rgb" -> "color"
    [] f = "bri" -> "brightness"
    [] f = "ct" -> "temperature"
    [] OTHER -> "effectType"
DescribedGroupState(command) ==
  [f \in { g \in {"rgb", "bri", "ct", "effect"} : Has(command, GroupField(g)) } |->
     CASE f = "rgb" -> command.color
       [] f = "bri" -> Nearest(command.brightness * MaxBri, MaxBrightness, MaxBri)
       [] f = "ct" -> Nearest(MiredNumerator, command.temperature,
                              MiredNumerator \div MinKelvin)
       [] OTHER -> command.effectType]

\* C12: a set_group_state with a group identifier makes exactly one bridge call,
\* setGroupState for that group with a state holding rgb, bri, ct and effect for
\* exactly those of color, brightness, temperature and effectType the command
\* carries, and is answered with success when that call succeeds.
C12_GroupStateCall ==
  \A id \in DOMAIN tasks :
    ( /\ Decoded(id)
      /\ CommandType(tasks[id].command) = "set_group_state"
      /\ ~NotStr(tasks[id].command, "group") ) =>
        /\ tasks[id].log =
             << [api |-> "setGroupState", target |-> tasks[id].command.group,
                 st |-> DescribedGroupState(tasks[id].command)] >>
        /\ (tasks[id].pc = "done" /\ ~tasks[id].rejected) =>
             tasks[id].res = SuccessResponse

\* C15: a set_color with a lightId and a color makes exactly one bridge call,
\* setLightState for that light with on = true, bri = 254, rgb = color and
\* nothing else, and is answered with type success, success true, and nothing
\* else when that call succeeds.
C15_SetColorCall ==
  \A id \in DOMAIN tasks :
    ( /\ Decoded(id)
      /\ ~IsNull(tasks[id].command)
      /\ Has(tasks[id].command, "type") /\ tasks[id].command.type = "set_color"
      /\ Has(tasks[id].command, "lightId") /\ Has(tasks[id].command, "color") ) =>
        /\ tasks[id].log =
             << [api |-> "setLightState", target |-> tasks[id].command.lightId,
                 st |-> [on |-> TRUE, bri |-> 254, rgb |-> tasks[id].command.color]] >>
        /\ (tasks[id].pc = "done" /\ ~tasks[id].rejected) =>
             /\ tasks[id].res = [type |-> "success", success |-> TRUE]
             /\ \E r \in Replies(id) : out[r[1]][r[2]].body = tasks[id].res

\* a set_color for red that took effect on the bridge and was answered with success
C15_Witness ==
  \E id \in DOMAIN tasks :
    /\ Has(tasks[id].command, "type") /\ tasks[id].command.type = "set_color"
    /\ tasks[id].pc = "done"
    /\ ~tasks[id].rejected
    /\ Len(tasks[id].log) = 1
    /\ bridgeLights["1"] = [LightOff EXCEPT !.on = TRUE, !.bri = 254, !.rgb = Red]
    /\ \E r \in Replies(id) : out[r[1]][r[2]].body.type = "success"

\* the twelve command types of the switch
RecognisedTypes ==
  { "get_lights", "get_groups", "get_scenes", "set_color", "flash", "set_brightness",
    "set_effect", "set_temperature", "activate_scene", "set_group_state", "disco",
    "turn_off" }
Unrecognised(command) ==
  /\ ~IsNull(command)
  /\ ~Has(command, "type") \/ command.type \notin RecognisedTypes

\* C16: a decoded command object whose type is absent or is none of the twelve
\* recognised types is answered with exactly type error, error "Unknown
\* command"; its handling makes no bridge call, waits on no timer and starts no
\* disco job.
C16_UnknownCommand ==
  \A id \in DOMAIN tasks :
    (Decoded(id) /\ Unrecognised(tasks[id].command)) =>
      /\ tasks[id].log = << >>
      /\ tasks[id].waits = 0
      /\ \A n \in DOMAIN pending : ~(pending[n].kind = "task" /\ pending[n].id = id)
      /\ \A j \in DOMAIN jobs : jobs[j].task # id
      /\ tasks[id].pc \in {"settled", "done"}
      /\ tasks[id].res = [type |-> "error", error |-> "Unknown command"]
      /\ \A r \in Replies(id) : out[r[1]][r[2]].body = tasks[id].res
      /\ tasks[id].pc = "done" => Cardinality(Replies(id)) = 1

\* an object without a type, answered
C16_Witness ==
  \E id \in DOMAIN tasks :
    /\ Decoded(id)
    /\ tasks[id].command = NoState
    /\ tasks[id].pc = "done"
    /\ \E r \in Replies(id) : out[r[1]][r[2]].body.error = "Unknown command"

\* C17: the server listens only once the bridge session is established and the
\* light list fetched, so the bridge handle is set whenever a connection is
\* open or a command handled; when the host or the credential is missing, or
\* connect or the fetch raises, the process exits with a non-zero code and has
\* never listened, accepted a connection or written a line.
C17_ListenAfterBridge ==
  /\ server = "listening" =>
       /\ state.bridge # "null"
       /\ state.lights = StartupSnapshot
       /\ exitCode = -1
       /\ env.host /\ env.username
  /\ (\E c \in Conns : sockets[c] # "none") \/ tasks # << >> =>
       server = "listening" /\ state.bridge # "null"
  /\ (server = "exited") = (exitCode # -1)
  /\ server = "exited" =>
       /\ exitCode > 0
       /\ \A c \in Conns : sockets[c] = "none" /\ out[c] = << >> /\ recv[c] = << >>
       /\ tasks = << >>
  /\ ~(env.host /\ env.username) => server \in {"init", "exited"}

\* the session was established, the fetch of the light list raised, and the
\* process exited without listening
C17_Witness ==
  /\ server = "exited"
  /\ exitCode = 1
  /\ state.bridge = "session"
  /\ state.lights = << >>

\* C18: every response written is well formed for its type: an error has a
\* non-empty error text and nothing else; a success has success = true and
\* nothing else; each list response has its own plural array and nothing else.
C18_ResponseWellFormed ==
  \A c \in Conns : \A n \in DOMAIN out[c] :
    LET body == out[c][n].body
    IN CASE body.type = "error" -> DOMAIN body = {"type", "error"} /\ body.error # ""
         [] body.type = "success" -> DOMAIN body = {"type", "success"} /\ body.success = TRUE
         [] body.type = "lights_list" -> DOMAIN body = {"type", "lights"}
         [] body.type = "groups_list" -> DOMAIN body = {"type", "groups"}
         [] body.type = "scenes_list" -> DOMAIN body = {"type", "scenes"}
         [] OTHER -> out[c][n].re = 0 /\ body = HelloMessage

\* a get_scenes whose bridge call raised without a message, answered by an error
\* with the default text
C18_Witness ==
  \E id \in DOMAIN tasks :
    /\ Has(tasks[id].command, "type") /\ tasks[id].command.type = "get_scenes"
    /\ tasks[id].rejected /\ tasks[id].rejectMsg = ""
    /\ \E r \in Replies(id) :
         /\ out[r[1]][r[2]].body.type = "error"
         /\ out[r[1]][r[2]].body.error # ""

\* the fetch each list query is said to make
FetchOf(type) ==
  CASE type = "get_lights" -> "lights.getAll"
    [] type = "get_groups" -> "groups.getAll"
    [] OTHER -> "scenes.getAll"

\* C19: light, group and scene data are not cached: each get_lights, get_groups
\* and get_scenes query makes one fetch call of its own kind to the bridge
\* while it is handled.
C19_ListsFetchedPerQuery ==
  \A id \in DOMAIN tasks :
    ( /\ Decoded(id)
      /\ ~IsNull(tasks[id].command)
      /\ Has(tasks[id].command, "type")
      /\ tasks[id].command.type \in {"get_lights", "get_groups", "get_scenes"} ) =>
        /\ Len(tasks[id].log) = 1
        /\ tasks[id].log[1].api = FetchOf(tasks[id].command.type)

\* C20: the k-th setLightState call of a disco job carries on = true, bri = 254,
\* transitiontime = 0 and the k-th colour of the palette, counted cyclically
\* from red, whatever the bridge answered to the calls before it.
C20_DiscoPaletteOrder ==
  \A j \in DOMAIN jobs :
    jobs[j].issued >= 1 =>
      jobs[j].last = [on |-> TRUE, bri |-> 254, transitiontime |-> 0,
                      rgb |-> Colors[((jobs[j].issued - 1) % 6) + 1]]

\* job j has completed: it stopped and none of its calls is outstanding
Completed(j) ==
  /\ ~jobs[j].active
  /\ \A n \in DOMAIN pending : ~(pending[n].kind = "tick" /\ pending[n].id = j)
  /\ \A n \in DOMAIN micro : ~(micro[n].kind = "tick" /\ micro[n].id = j)

\* the instant of the last call job j issued
LastCall(j) == jobs[j].due - jobs[j].speed \div MsPerUnit

\* C21: when the disco jobs for one light have all completed, the last call the
\* light received from any of them was issued by the job started last: no job
\* started earlier issued a call at a later instant.
C21_LastStartedWins ==
  \A j \in DOMAIN jobs, k \in DOMAIN jobs :
    ( /\ j < k
      /\ jobs[j].light = jobs[k].light
      /\ jobs[j].issued >= 1 /\ jobs[k].issued >= 1
      /\ \A m \in DOMAIN jobs : m > k => jobs[m].light # jobs[k].light
      /\ \A m \in DOMAIN jobs : jobs[m].light = jobs[k].light => Completed(m) ) =>
        LastCall(j) <= LastCall(k)

\* task id is suspended: it awaits a bridge call or a timer
Suspended(id) == tasks[id].pc \in {"call", "sleep", "woken"}

\* C22: command handling is not serialized. Every complete line read has been
\* handed to handleMessage in the read that completed it, whatever commands are
\* suspended then, on its connection or another; its handling has run up to its
\* first await, and a get_lights, which awaits nothing, is never held back.
C22_HandlingNotSerialized ==
  /\ \A c \in Conns : Len(handed[c]) = Newlines(recv[c]) /\ IndexOfNL(buffer[c]) = 0
  /\ \A id \in DOMAIN tasks :
       /\ tasks[id].pc \in {"call", "sleep", "woken", "settled", "done"}
       /\ (Decoded(id) /\ tasks[id].command = GetLightsCommand) =>
            /\ tasks[id].pc \in {"settled", "done"}
            /\ tasks[id].pc = "settled" => Queued(id)

\* a flash waiting on its timer, unanswered, while a message that arrived after
\* it on the same connection has been handled and answered
C22_Witness ==
  \E a \in DOMAIN tasks, b \in DOMAIN tasks :
    /\ a < b
    /\ tasks[a].command = FlashOnce
    /\ tasks[a].pc = "sleep"
    /\ Replies(a) = {}
    /\ tasks[b].conn = tasks[a].conn
    /\ tasks[b].pc = "done"
    /\ \E r \in Replies(b) : r[1] = tasks[a].conn

\* a light after the first n calls of a log took effect on it, in order
RECURSIVE AfterCalls(_, _, _)
AfterCalls(light, log, n) ==
  IF n = 0 THEN light ELSE ApplyState(AfterCalls(light, log, n - 1), log[n].st)

\* C23: a flash one of whose bridge calls raised has stopped at that call: it
\* is suspended on nothing, the failing call is the last of its calls and each
\* call but the first followed one wait, it has exactly one response, an error,
\* and the light is as the calls before the failing one left it.
C23_FlashStopsAtFailure ==
  \A id \in DOMAIN tasks :
    ( /\ Decoded(id)
      /\ ~IsNull(tasks[id].command)
      /\ Has(tasks[id].command, "type") /\ tasks[id].command.type = "flash"
      /\ tasks[id].rejected ) =>
        /\ tasks[id].pc \in {"settled", "done"}
        /\ \A n \in DOMAIN pending : ~(pending[n].kind = "task" /\ pending[n].id = id)
        /\ tasks[id].waits = Len(tasks[id].log) - 1
        /\ tasks[id].res.type = "error"
        /\ Cardinality(Replies(id)) = IF tasks[id].pc = "done" THEN 1 ELSE 0
        /\ \A r \in Replies(id) : out[r[1]][r[2]].body = tasks[id].res
        /\ Len(tasks) = 1 =>
             bridgeLights[tasks[id].command.lightId] =
               AfterCalls(LightOff, tasks[id].log, Len(tasks[id].log) - 1)

\* a flash whose closing call raised, answered with an error, the light left off
C23_Witness ==
  \E id \in DOMAIN tasks :
    /\ Has(tasks[id].command, "type") /\ tasks[id].command.type = "flash"
    /\ tasks[id].rejected
    /\ tasks[id].pc = "done"
    /\ Len(tasks[id].log) = 3
    /\ tasks[id].waits = 2
    /\ ~bridgeLights["1"].on
    /\ bridgeLights["1"].rgb = Red
    /\ \E r \in Replies(id) : out[r[1]][r[2]].body.type = "error"

\* C24: the continuation of a disco tick whose bridge call raised writes nothing
\* to any connection and touches no message's handling, so the success
\* response of the disco command stands; it leaves the job running, does not
\* advance the palette cursor, and makes no elapsed-time check, so the job runs
\* on even past its duration.
C24_TickFailureSilent ==
  [][ (micro # << >> /\ Head(micro).kind = "tick" /\ ~Head(micro).ok) =>
        /\ out' = out
        /\ tasks' = tasks
        /\ sockets' = sockets
        /\ exitCode' = exitCode
        /\ pending' = pending
        /\ jobs'[Head(micro).id].active = jobs[Head(micro).id].active
        /\ jobs'[Head(micro).id].colorIndex = jobs[Head(micro).id].colorIndex
        /\ jobs'[Head(micro).id].due = jobs[Head(micro).id].due ]_vars

\* a job a tick call of which raised once its duration had elapsed: it is still
\* running, its cursor is where it was, and its connection holds the hello and
\* the success response only
C24_Witness ==
  \E j \in DOMAIN jobs :
    /\ jobs[j].refused
    /\ jobs[j].overran
    /\ jobs[j].active
    /\ jobs[j].colorIndex = 0
    /\ jobs[j].issued >= 2
    /\ micro = << >>
    /\ out[tasks[jobs[j].task].conn] =
         << [re |-> 0, body |-> HelloMessage],
            [re |-> jobs[j].task, body |-> SuccessResponse] >>

\* C25: in a read, the lines that are not valid JSON are each answered with an
\* error while the read is processed, and nothing else is written during the
\* read: a well-formed message of the read is unanswered when the read's loop
\* ends, so the error of a malformed line is written before the response of a
\* well-formed message that preceded it in the read.
C25_ParseErrorWrittenInRead ==
  [][ \A c \in Conns : recv'[c] # recv[c] =>
        /\ \A n \in DOMAIN out'[c] : n > Len(out[c]) =>
             /\ out'[c][n].re > Len(tasks)
             /\ out'[c][n].re \in DOMAIN tasks'
             /\ ~JSONparse(tasks'[out'[c][n].re].message).ok
             /\ out'[c][n].body.type = "error"
        /\ \A id \in DOMAIN tasks' : id > Len(tasks) =>
             IF JSONparse(tasks'[id].message).ok
             THEN /\ tasks'[id].pc # "done"
                  /\ \A n \in DOMAIN out'[c] : out'[c][n].re # id
             ELSE /\ tasks'[id].pc = "done"
                  /\ \E n \in DOMAIN out'[c] : n > Len(out[c]) /\ out'[c][n].re = id ]_vars

\* one read that held a well-formed message and then a malformed line: after the
\* hello the connection holds the error of the second, then the response of the
\* first
C25_Witness ==
  \E c \in Conns :
    /\ Len(reads[c]) = 1
    /\ Len(handed[c]) = 2
    /\ JSONparse(handed[c][1]).ok
    /\ ~JSONparse(handed[c][2]).ok
    /\ Len(out[c]) = 3
    /\ tasks[out[c][2].re].message = handed[c][2]
    /\ out[c][2].body.type = "error"
    /\ tasks[out[c][3].re].message = handed[c][1]
    /\ out[c][2].re > out[c][3].re
====
